---- MODULE Spec2Model ----
(***************************************************************************)
(* liquidctl-energy: the per-step consistency checker (process_step), the  *)
(* monthly-bucketed accumulator (account_step) and the run driver (the     *)
(* record loop of main), modelled from src/main.cpp lines 1-280.           *)
(*                                                                         *)
(* Abstractions.  Time stamps are whole seconds since the Unix epoch (the  *)
(* code keeps nanoseconds), uptimes and powers are integers (the code      *)
(* keeps doubles) and arithmetic is exact; the powers drawn are even, so   *)
(* the division by 2 of the trapezoid is exact as well.  The time zone of  *)
(* the host is a fixed offset from UTC.  A double that main reads without  *)
(* having set it has one indeterminate value per run.                      *)
(***************************************************************************)
EXTENDS Integers, Sequences, FiniteSets, TLC

\* Number of records of the input stream the driver reads at most.
MaxRecords == 3

\* Offsets from UTC (seconds) the host's zone is drawn from: +03:00, the
\* offset of the sample time stamp of parse_timestamp.
Zones == {10800}
\* 2024-01-31T20:59:00Z, that is 2024-01-31T23:59:00+03:00.
StartStamps == {1706734740}
\* Seconds between two adjacent records.
DeltaWalls == {60}
\* "Current uptime" values of a record.
UptimeCurs == {10, 60}
\* "Total uptime" of the first record, and its advance between adjacent records.
StartTots == {1000}
DeltaTots == {0, 58, 59}
\* "Estimated input power" values of a record.
Powers == {100, 500}
\* Values an uninitialized double of main is read as (what the build and the
\* run left in its place).
Indeterminate == {0, 100}

\* Records of any order and sign: time stamps that go back, uptimes below
\* zero, a lifetime counter that falls.
AnyDeltaWalls == {-60, 60}
AnyUptimeCurs == {-10, 10, 60}
AnyStartTots == {59}
AnyDeltaTots == {-59, 0, 30, 59}
AnyPowers == {100}

\* The accumulator on its own: calls made per run, and what a call may pass.
MaxCalls == 3
\* 2023-01-15 00:00:00 UTC, 2024-01-31 20:59:00 UTC, 2024-01-31 21:00:00 UTC.
AccountStamps == {1673740800, 1706734740, 1706734800}
AccountTimes == {10, 60}
AccountEnergies == {1000, 6000}

VARIABLES
    zone,          \* static zone of GroupKey::from_time (offset from UTC)
    junk,          \* what an uninitialized double of main is read as
    pc,            \* "loop": reading records; "exited": main returned;
                   \* "terminated": an exception left main (std::terminate)
    exit_status,   \* value returned by main, once pc = "exited"
    is_first,      \* main's is_first
    prev,          \* main's prev
    r,             \* main's Result r
    last_key,      \* account_step's static last_key
    last_bucket,   \* account_step's static last_bucket (NullPtr or the key of
                   \* the bucket it points to)
    ub,            \* a null last_bucket was dereferenced
    nrec,          \* records read so far
    \* history of the last loop iteration
    cur_kind,      \* kind of the record it read
    stepped,       \* it called process_step
    old_r,         \* r before it
    old_prev,      \* prev before it
    old_first,     \* is_first before it
    \* history of the run
    nsteps,        \* process_step calls
    nwell,         \* well-formed records read
    wl_prev,       \* the well-formed record before the last one
    wl_last,       \* the last well-formed record
    sum_wall,      \* sum of stamp differences over the steps
    sum_trap,      \* sum of trapezoids over stamp differences over the steps
    only12,        \* every step so far matched rule 1 or rule 2
    inconsistent,  \* some step so far matched none of rules 1-3
    \* the accumulator on its own
    r_lookup,      \* the Result the accumulator without the cache builds from
                   \* the same calls
    key_trace      \* keys of the account_step calls made so far

vars == <<zone, junk, pc, exit_status, is_first, prev, r, last_key, last_bucket, ub,
          nrec, cur_kind, stepped, old_r, old_prev, old_first, nsteps, nwell,
          wl_prev, wl_last, sum_wall, sum_trap, only12, inconsistent,
          r_lookup, key_trace>>

----------------------------------------------------------------------------
\* Data model

Measurement(stamp, uptime_cur, uptime_tot, pwr) ==
    [stamp |-> stamp, uptime_cur |-> uptime_cur, uptime_tot |-> uptime_tot,
     pwr |-> pwr]

\* An unset Measurement (never read by the code before it is assigned).
NoMeasurement == Measurement(0, 0, 0, 0)

GroupResult(time, energy_j) == [time |-> time, energy_j |-> energy_j]

\* Result r{}: value-initialized.
EmptyResult ==
    [total |-> GroupResult(0, 0),
     buckets |-> [k \in {} |-> GroupResult(0, 0)],
     rollovers |-> 0,
     bad |-> FALSE]

NullPtr == << >>

abs(x) == IF x < 0 THEN -x ELSE x

\* std::chrono::year_month_day{sys_days}: civil date of a day number.
year_month_day(days) ==
    LET z   == days + 719468
        era == z \div 146097
        doe == z - era * 146097
        yoe == (doe - doe \div 1460 + doe \div 36524 - doe \div 146096) \div 365
        doy == doe - (365 * yoe + yoe \div 4 - yoe \div 100)
        mp  == (5 * doy + 2) \div 153
        d   == doy - (153 * mp + 2) \div 5 + 1
        m   == IF mp < 10 THEN mp + 3 ELSE mp - 9
        y   == yoe + era * 400 + (IF m <= 2 THEN 1 ELSE 0)
    IN  [year |-> y, month |-> m, day |-> d]

\* GroupKey::from_time: (year, month) of the local calendar day of ts.
from_time(ts) ==
    LET ts_local == ts + zone
        ymd == year_month_day(ts_local \div 86400)
    IN  <<ymd.year, ymd.month>>

\* std::map::operator[]: the map with an entry for key, value-initialized
\* when it had none.
bucket_lookup(buckets, key) ==
    [k \in DOMAIN buckets \cup {key} |->
        IF k \in DOMAIN buckets THEN buckets[k] ELSE GroupResult(0, 0)]

----------------------------------------------------------------------------
\* The accumulator and the step classifier.  Both work on
\* st = [r, last_key, last_bucket, ub]: the Result and account_step's statics.

\* account_step with the bucket taken by value: the total grows, the bucket
\* of the map does not.
account_step_by_value(st, ts, time, energy) ==
    LET key  == from_time(ts)
        miss == key # st.last_key
        b1   == IF miss THEN bucket_lookup(st.r.buckets, key) ELSE st.r.buckets
    IN  [r |-> [st.r EXCEPT
                    !.total = GroupResult(@.time + time, @.energy_j + energy),
                    !.buckets = b1],
         last_key |-> key,
         last_bucket |-> IF miss THEN key ELSE st.last_bucket,
         ub |-> st.ub]

\* account_step whose cache miss replaces last_key but re-points last_bucket
\* only when it was null: the pointer goes stale when the key changes.
account_step_stale_pointer(st, ts, time, energy) ==
    LET key    == from_time(ts)
        miss   == key # st.last_key
        fresh  == miss /\ st.last_bucket = NullPtr
        b1     == IF fresh THEN bucket_lookup(st.r.buckets, key) ELSE st.r.buckets
        lb     == IF fresh THEN key ELSE st.last_bucket
        total1 == GroupResult(st.r.total.time + time, st.r.total.energy_j + energy)
    IN  [r |-> [st.r EXCEPT
                    !.total = total1,
                    !.buckets = [b1 EXCEPT ![lb] =
                        GroupResult(@.time + time, @.energy_j + energy)]],
         last_key |-> key, last_bucket |-> lb, ub |-> st.ub]

\* account_step(r, ts, time, energy), with the static cache of the last bucket.
account_step(st, ts, time, energy) ==
    LET key    == from_time(ts)
        miss   == key # st.last_key
        lk     == IF miss THEN key ELSE st.last_key
        b1     == IF miss THEN bucket_lookup(st.r.buckets, key) ELSE st.r.buckets
        lb     == IF miss THEN key ELSE st.last_bucket
        total1 == GroupResult(st.r.total.time + time, st.r.total.energy_j + energy)
    IN  IF lb = NullPtr
        THEN [r |-> [st.r EXCEPT !.total = total1, !.buckets = b1],
              last_key |-> lk, last_bucket |-> lb, ub |-> TRUE]
        ELSE [r |-> [st.r EXCEPT
                        !.total = total1,
                        !.buckets = [b1 EXCEPT ![lb] =
                            GroupResult(@.time + time, @.energy_j + energy)]],
              last_key |-> lk, last_bucket |-> lb, ub |-> st.ub]

\* account_step(r, ts, time, energy) as it was before the cache (lines
\* 371-378): the bucket is looked up on every call.  It has no statics, so it
\* works on the Result alone.
account_step_lookup(res, ts, time, energy) ==
    LET key == from_time(ts)
        b1  == bucket_lookup(res.buckets, key)
    IN  [res EXCEPT
            !.total = GroupResult(@.time + time, @.energy_j + energy),
            !.buckets = [b1 EXCEPT ![key] =
                GroupResult(@.time + time, @.energy_j + energy)]]

\* process_step that keeps the wall clock delta in the rollover branch whose
\* lifetime counter advanced (line 148 left out).
process_step_keeps_wall(st, prev_, last) ==
    LET delta_wall       == last.stamp - prev_.stamp
        delta_uptime_tot == last.uptime_tot - prev_.uptime_tot
        delta_uptime_cur == last.uptime_cur - prev_.uptime_cur
        uptime           == last.uptime_cur
        rolled           == [st EXCEPT !.r.rollovers = @ + 1]
        integrate(s, dw) ==
            account_step(s, prev_.stamp, dw, ((prev_.pwr + last.pwr) * dw) \div 2)
    IN  IF abs(delta_wall - delta_uptime_tot) < 2
        THEN integrate(st, delta_wall)
        ELSE IF abs(delta_uptime_tot - delta_uptime_cur) < 1
        THEN integrate(st, delta_wall)
        ELSE IF delta_wall > uptime
        THEN IF delta_uptime_tot < uptime
             THEN account_step(rolled, last.stamp, uptime, last.pwr * uptime)
             ELSE integrate(rolled, delta_wall)
        ELSE [st EXCEPT !.r.bad = TRUE]

\* process_step that integrates the power-loss rollover as any other step:
\* a trapezoid over uptime, attributed to prev.
process_step_trapezoid_rollover(st, prev_, last) ==
    LET delta_wall       == last.stamp - prev_.stamp
        delta_uptime_tot == last.uptime_tot - prev_.uptime_tot
        delta_uptime_cur == last.uptime_cur - prev_.uptime_cur
        uptime           == last.uptime_cur
        rolled           == [st EXCEPT !.r.rollovers = @ + 1]
        integrate(s, dw) ==
            account_step(s, prev_.stamp, dw, ((prev_.pwr + last.pwr) * dw) \div 2)
    IN  IF abs(delta_wall - delta_uptime_tot) < 2
        THEN integrate(st, delta_wall)
        ELSE IF abs(delta_uptime_tot - delta_uptime_cur) < 1
        THEN integrate(st, delta_wall)
        ELSE IF delta_wall > uptime
        THEN IF delta_uptime_tot < uptime
             THEN integrate(rolled, uptime)
             ELSE integrate(rolled, delta_uptime_tot)
        ELSE [st EXCEPT !.r.bad = TRUE]

\* process_step whose inconsistent branch still accounts the wall clock delta.
process_step_accounts_inconsistent(st, prev_, last) ==
    LET delta_wall       == last.stamp - prev_.stamp
        delta_uptime_tot == last.uptime_tot - prev_.uptime_tot
        delta_uptime_cur == last.uptime_cur - prev_.uptime_cur
        uptime           == last.uptime_cur
        rolled           == [st EXCEPT !.r.rollovers = @ + 1]
        integrate(s, dw) ==
            account_step(s, prev_.stamp, dw, ((prev_.pwr + last.pwr) * dw) \div 2)
    IN  IF abs(delta_wall - delta_uptime_tot) < 2
        THEN integrate(st, delta_wall)
        ELSE IF abs(delta_uptime_tot - delta_uptime_cur) < 1
        THEN integrate(st, delta_wall)
        ELSE IF delta_wall > uptime
        THEN IF delta_uptime_tot < uptime
             THEN account_step(rolled, last.stamp, uptime, last.pwr * uptime)
             ELSE integrate(rolled, delta_uptime_tot)
        ELSE integrate([st EXCEPT !.r.bad = TRUE], delta_wall)

\* process_step that attributes an integrated step to the month of last.stamp.
process_step_keyed_by_last(st, prev_, last) ==
    LET delta_wall       == last.stamp - prev_.stamp
        delta_uptime_tot == last.uptime_tot - prev_.uptime_tot
        delta_uptime_cur == last.uptime_cur - prev_.uptime_cur
        uptime           == last.uptime_cur
        rolled           == [st EXCEPT !.r.rollovers = @ + 1]
        integrate(s, dw) ==
            account_step(s, last.stamp, dw, ((prev_.pwr + last.pwr) * dw) \div 2)
    IN  IF abs(delta_wall - delta_uptime_tot) < 2
        THEN integrate(st, delta_wall)
        ELSE IF abs(delta_uptime_tot - delta_uptime_cur) < 1
        THEN integrate(st, delta_wall)
        ELSE IF delta_wall > uptime
        THEN IF delta_uptime_tot < uptime
             THEN account_step(rolled, last.stamp, uptime, last.pwr * uptime)
             ELSE integrate(rolled, delta_uptime_tot)
        ELSE [st EXCEPT !.r.bad = TRUE]

\* process_step that integrates a rule 2 step over the device's own delta.
process_step_trusts_device(st, prev_, last) ==
    LET delta_wall       == last.stamp - prev_.stamp
        delta_uptime_tot == last.uptime_tot - prev_.uptime_tot
        delta_uptime_cur == last.uptime_cur - prev_.uptime_cur
        uptime           == last.uptime_cur
        rolled           == [st EXCEPT !.r.rollovers = @ + 1]
        integrate(s, dw) ==
            account_step(s, prev_.stamp, dw, ((prev_.pwr + last.pwr) * dw) \div 2)
    IN  IF abs(delta_wall - delta_uptime_tot) < 2
        THEN integrate(st, delta_wall)
        ELSE IF abs(delta_uptime_tot - delta_uptime_cur) < 1
        THEN integrate(st, delta_uptime_tot)
        ELSE IF delta_wall > uptime
        THEN IF delta_uptime_tot < uptime
             THEN account_step(rolled, last.stamp, uptime, last.pwr * uptime)
             ELSE integrate(rolled, delta_uptime_tot)
        ELSE [st EXCEPT !.r.bad = TRUE]

\* process_step that takes bad for the state of the last step: a consistent
\* step clears it.
process_step_clears_bad(st, prev_, last) ==
    LET delta_wall       == last.stamp - prev_.stamp
        delta_uptime_tot == last.uptime_tot - prev_.uptime_tot
        delta_uptime_cur == last.uptime_cur - prev_.uptime_cur
        uptime           == last.uptime_cur
        rolled           == [st EXCEPT !.r.rollovers = @ + 1]
        integrate(s, dw) ==
            account_step(s, prev_.stamp, dw, ((prev_.pwr + last.pwr) * dw) \div 2)
    IN  IF abs(delta_wall - delta_uptime_tot) < 2
        THEN integrate([st EXCEPT !.r.bad = FALSE], delta_wall)
        ELSE IF abs(delta_uptime_tot - delta_uptime_cur) < 1
        THEN integrate(st, delta_wall)
        ELSE IF delta_wall > uptime
        THEN IF delta_uptime_tot < uptime
             THEN account_step(rolled, last.stamp, uptime, last.pwr * uptime)
             ELSE integrate(rolled, delta_uptime_tot)
        ELSE [st EXCEPT !.r.bad = TRUE]

\* process_step whose rollover branch never looks at delta_uptime_bad: it
\* always takes the lifetime counter's delta in place of the wall clock delta.
process_step_always_trusts(st, prev_, last) ==
    LET delta_wall       == last.stamp - prev_.stamp
        delta_uptime_tot == last.uptime_tot - prev_.uptime_tot
        delta_uptime_cur == last.uptime_cur - prev_.uptime_cur
        uptime           == last.uptime_cur
        rolled           == [st EXCEPT !.r.rollovers = @ + 1]
        integrate(s, dw) ==
            account_step(s, prev_.stamp, dw, ((prev_.pwr + last.pwr) * dw) \div 2)
    IN  IF abs(delta_wall - delta_uptime_tot) < 2 THEN integrate(st, delta_wall)
        ELSE IF abs(delta_uptime_tot - delta_uptime_cur) < 1
        THEN integrate(st, delta_wall)
        ELSE IF delta_wall > uptime THEN integrate(rolled, delta_uptime_tot)
        ELSE [st EXCEPT !.r.bad = TRUE]

\* process_step(r, prev, last).  (rollovers is unsigned; its wrap at 2^32 is
\* out of reach of a bounded run and is not modelled.)
process_step(st, prev_, last) ==
    LET delta_wall       == last.stamp - prev_.stamp
        delta_uptime_tot == last.uptime_tot - prev_.uptime_tot
        delta_uptime_cur == last.uptime_cur - prev_.uptime_cur
        uptime           == last.uptime_cur
        delta_uptime_bad == delta_uptime_tot < uptime
        rolled           == [st EXCEPT !.r.rollovers = @ + 1]
        integrate(s, dw) ==
            account_step(s, prev_.stamp, dw, ((prev_.pwr + last.pwr) * dw) \div 2)
    IN  IF abs(delta_wall - delta_uptime_tot) < 2
        THEN integrate(st, delta_wall)
        ELSE IF abs(delta_uptime_tot - delta_uptime_cur) < 1
        THEN integrate(st, delta_wall)
        ELSE IF delta_wall > uptime
        THEN IF delta_uptime_bad
             THEN account_step(rolled, last.stamp, uptime, last.pwr * uptime)
             ELSE integrate(rolled, delta_uptime_tot)
        ELSE [st EXCEPT !.r.bad = TRUE]

----------------------------------------------------------------------------
\* The steps as the specification classifies them (used by the properties
\* and by the run's history, never by the operators above).

DeltaWall(p, c)   == c.stamp - p.stamp
DeltaTotal(p, c)  == c.uptime_tot - p.uptime_tot
DeltaCurrent(p, c) == c.uptime_cur - p.uptime_cur
Rule1(p, c) == abs(DeltaWall(p, c) - DeltaTotal(p, c)) < 2
Rule2(p, c) == ~Rule1(p, c) /\ abs(DeltaTotal(p, c) - DeltaCurrent(p, c)) < 1
Rule3(p, c) == ~Rule1(p, c) /\ ~Rule2(p, c) /\ DeltaWall(p, c) > c.uptime_cur
Rule4(p, c) == ~Rule1(p, c) /\ ~Rule2(p, c) /\ ~Rule3(p, c)
Suspect(p, c) == DeltaTotal(p, c) < c.uptime_cur
Trapezoid(p, c, dt) == ((p.pwr + c.pwr) * dt) \div 2

----------------------------------------------------------------------------
\* The run driver: main's loop over the records of the input.

\* The measurements the next record of the input may carry.
NextMeasurements ==
    IF is_first
    THEN {Measurement(s, uc, ut, p) :
            s \in StartStamps, uc \in UptimeCurs, ut \in StartTots, p \in Powers}
    ELSE {Measurement(prev.stamp + dw, uc, prev.uptime_tot + dut, p) :
            dw \in DeltaWalls, uc \in UptimeCurs, dut \in DeltaTots, p \in Powers}

Init ==
    /\ zone \in Zones
    /\ junk \in Indeterminate
    /\ pc = "loop"
    /\ exit_status = 0
    /\ is_first = TRUE
    /\ prev = NoMeasurement
    /\ r = EmptyResult
    /\ last_key = <<0, 0>>
    /\ last_bucket = NullPtr
    /\ ub = FALSE
    /\ nrec = 0
    /\ cur_kind = "none"
    /\ stepped = FALSE
    /\ old_r = EmptyResult
    /\ old_prev = NoMeasurement
    /\ old_first = TRUE
    /\ nsteps = 0
    /\ nwell = 0
    /\ wl_prev = NoMeasurement
    /\ wl_last = NoMeasurement
    /\ sum_wall = 0
    /\ sum_trap = 0
    /\ only12 = TRUE
    /\ inconsistent = FALSE
    /\ r_lookup = EmptyResult
    /\ key_trace = << >>

\* What every loop iteration records of the state it started in.
Iteration(kind) ==
    /\ pc = "loop"
    /\ nrec < MaxRecords
    /\ nrec' = nrec + 1
    /\ cur_kind' = kind
    /\ old_r' = r
    /\ old_prev' = prev
    /\ old_first' = is_first
    /\ nwell' = IF kind = "ok" THEN nwell + 1 ELSE nwell
    /\ wl_prev' = IF kind = "ok" THEN wl_last ELSE wl_prev
    /\ UNCHANGED <<zone, junk, exit_status, r_lookup, key_trace>>

\* Lines 232-245: the measurement m was built without an exception.
Accept(m) ==
    LET st  == [r |-> r, last_key |-> last_key, last_bucket |-> last_bucket,
                ub |-> ub]
        o12 == only12 /\ (is_first \/ Rule1(prev, m) \/ Rule2(prev, m))
    IN  \E st1 \in {IF is_first THEN st ELSE process_step(st, prev, m)} :
        /\ is_first' = FALSE
        /\ r' = st1.r
        /\ last_key' = st1.last_key
        /\ last_bucket' = st1.last_bucket
        /\ ub' = st1.ub
        /\ prev' = m
        /\ pc' = pc
        /\ stepped' = ~is_first
        /\ nsteps' = IF is_first THEN nsteps ELSE nsteps + 1
        /\ only12' = o12
        /\ inconsistent' = (inconsistent \/ (~is_first /\ Rule4(prev, m)))
        /\ sum_wall' = IF ~o12 THEN 0
                       ELSE IF is_first THEN sum_wall
                       ELSE sum_wall + DeltaWall(prev, m)
        /\ sum_trap' = IF ~o12 THEN 0
                       ELSE IF is_first THEN sum_trap
                       ELSE sum_trap + Trapezoid(prev, m, DeltaWall(prev, m))

\* The catch clause of line 246: the record is dropped, nothing is assigned.
Caught ==
    /\ stepped' = FALSE
    /\ UNCHANGED <<pc, is_first, prev, r, last_key, last_bucket, ub, nsteps,
                   sum_wall, sum_trap, only12, inconsistent>>

\* An exception that is no simdjson_error leaves main: std::terminate.
Uncaught ==
    /\ pc' = "terminated"
    /\ stepped' = FALSE
    /\ UNCHANGED <<is_first, prev, r, last_key, last_bucket, ub, nsteps,
                   sum_wall, sum_trap, only12, inconsistent>>

\* A well-formed record.
ReadRecord ==
    /\ Iteration("ok")
    /\ \E m \in NextMeasurements :
        /\ Accept(m)
        /\ wl_last' = m

\* A record simdjson fails on (not JSON, no "timestamp", no "data", an item
\* without "key", "value" or "unit", a value that is no number).
ParseError ==
    /\ Iteration("parse_error")
    /\ Caught
    /\ UNCHANGED wl_last

\* A record whose item has another unit than expected: parse_item throws
\* std::runtime_error.
BadItem ==
    /\ Iteration("bad_unit")
    /\ Uncaught
    /\ UNCHANGED wl_last

\* A record whose timestamp does not parse: the stream, with failbit in its
\* exception mask, throws std::ios_base::failure.
BadTimestamp ==
    /\ Iteration("bad_timestamp")
    /\ Uncaught
    /\ UNCHANGED wl_last

\* A record whose device has no item of one of the three keys: the local
\* double of that key is read uninitialized.
MissingField ==
    /\ Iteration("missing_field")
    /\ \E m \in {[w EXCEPT ![f] = junk] :
                    w \in NextMeasurements,
                    f \in {"uptime_cur", "uptime_tot", "pwr"}} :
        Accept(m)
    /\ UNCHANGED wl_last

\* A record without the device: device_items stays default-constructed and is
\* iterated.  The library does not define that: the process crashes, or an
\* error is thrown and caught, or the loop body never runs and all three
\* doubles are read uninitialized.
MissingDevice ==
    /\ Iteration("missing_device")
    /\ \/ Uncaught
       \/ Caught
       \/ \E m \in {Measurement(w.stamp, junk, junk, junk) :
                        w \in NextMeasurements} :
            Accept(m)
    /\ UNCHANGED wl_last

\* End of the input: the report is printed and main returns (line 279).
Finish ==
    /\ pc = "loop"
    /\ pc' = "exited"
    /\ exit_status' = IF r.bad THEN 1 ELSE 0
    /\ UNCHANGED <<zone, junk, is_first, prev, r, last_key, last_bucket, ub, nrec,
                   cur_kind, stepped, old_r, old_prev, old_first, nsteps, nwell,
                   wl_prev, wl_last, sum_wall, sum_trap, only12, inconsistent,
                   r_lookup, key_trace>>

Next ==
    \/ ReadRecord
    \/ ParseError
    \/ BadItem
    \/ BadTimestamp
    \/ MissingField
    \/ MissingDevice
    \/ Finish

Spec == Init /\ [][Next]_vars

----------------------------------------------------------------------------
\* The loop over well-formed records of any order and sign.

AnyMeasurements ==
    IF is_first
    THEN {Measurement(s, uc, ut, p) :
            s \in StartStamps, uc \in AnyUptimeCurs, ut \in AnyStartTots,
            p \in AnyPowers}
    ELSE {Measurement(prev.stamp + dw, uc, prev.uptime_tot + dut, p) :
            dw \in AnyDeltaWalls, uc \in AnyUptimeCurs, dut \in AnyDeltaTots,
            p \in AnyPowers}

ReadAnyRecord ==
    /\ Iteration("ok")
    /\ \E m \in AnyMeasurements :
        /\ Accept(m)
        /\ wl_last' = m

NextAnyInput ==
    \/ ReadAnyRecord
    \/ Finish

SpecAnyInput == Init /\ [][NextAnyInput]_vars

----------------------------------------------------------------------------
\* The accumulator on its own: any sequence of account_step calls on the one
\* Result of the run, each made to the accumulator with the cache and to the
\* accumulator without it.

AccountCall ==
    /\ Len(key_trace) < MaxCalls
    /\ \E ts \in AccountStamps, time \in AccountTimes, energy \in AccountEnergies :
        \E st1 \in {account_step([r |-> r, last_key |-> last_key,
                                  last_bucket |-> last_bucket, ub |-> ub],
                                 ts, time, energy)} :
            /\ r' = st1.r
            /\ last_key' = st1.last_key
            /\ last_bucket' = st1.last_bucket
            /\ ub' = st1.ub
            /\ r_lookup' = account_step_lookup(r_lookup, ts, time, energy)
            /\ key_trace' = Append(key_trace, from_time(ts))
    /\ old_r' = r
    /\ UNCHANGED <<zone, junk, pc, exit_status, is_first, prev, nrec, cur_kind,
                   stepped, old_prev, old_first, nsteps, nwell, wl_prev, wl_last,
                   sum_wall, sum_trap, only12, inconsistent>>

NextAccount == AccountCall

SpecAccount == Init /\ [][NextAccount]_vars

----------------------------------------------------------------------------
\* Vocabulary of the properties.

RECURSIVE SumTime(_), SumEnergy(_)
SumTime(buckets) ==
    IF DOMAIN buckets = {} THEN 0
    ELSE LET k == CHOOSE x \in DOMAIN buckets : TRUE
         IN  buckets[k].time
             + SumTime([j \in DOMAIN buckets \ {k} |-> buckets[j]])
SumEnergy(buckets) ==
    IF DOMAIN buckets = {} THEN 0
    ELSE LET k == CHOOSE x \in DOMAIN buckets : TRUE
         IN  buckets[k].energy_j
             + SumEnergy([j \in DOMAIN buckets \ {k} |-> buckets[j]])

\* The bucket of key k in the Result res, empty when res has none.
BucketOf(res, k) ==
    IF k \in DOMAIN res.buckets THEN res.buckets[k] ELSE GroupResult(0, 0)

\* The bucket of key k grew by (time, energy) in the last iteration.
Received(k, time, energy) ==
    /\ k \in DOMAIN r.buckets
    /\ r.buckets[k].time = BucketOf(old_r, k).time + time
    /\ r.buckets[k].energy_j = BucketOf(old_r, k).energy_j + energy

\* Every bucket but that of key k is as it was before the last iteration,
\* and no bucket but that of key k was created.
OthersUntouched(k) ==
    /\ DOMAIN r.buckets \ {k} = DOMAIN old_r.buckets \ {k}
    /\ \A j \in DOMAIN r.buckets \ {k} : r.buckets[j] = old_r.buckets[j]

\* The total grew by (time, energy) in the last iteration.
TotalGrew(time, energy) ==
    /\ r.total.time = old_r.total.time + time
    /\ r.total.energy_j = old_r.total.energy_j + energy

\* The local calendar month of a time stamp of January or February 2024
\* (1706745600 is 2024-02-01T00:00:00Z), read off the calendar.
LocalMonth(ts) ==
    IF ts + zone < 1706745600 THEN <<2024, 1>> ELSE <<2024, 2>>

\* The step of the last iteration, when it ran one: process_step(old_prev, prev).
StepRule1 == stepped /\ Rule1(old_prev, prev)
StepRule2 == stepped /\ Rule2(old_prev, prev)
StepRule3 == stepped /\ Rule3(old_prev, prev)
StepRule4 == stepped /\ Rule4(old_prev, prev)
StepSuspect == Suspect(old_prev, prev)

----------------------------------------------------------------------------
\* C1: in every state of a run the total's time and energy are the sums of
\* the buckets' times and energies, and whenever an iteration changed the
\* total, exactly one bucket received the same increments and every other
\* bucket stayed as it was.
C1_TotalIsSumOfBuckets ==
    /\ r.total.time = SumTime(r.buckets)
    /\ r.total.energy_j = SumEnergy(r.buckets)
    /\ r.total # old_r.total =>
         \E k \in DOMAIN r.buckets :
            /\ Received(k, r.total.time - old_r.total.time,
                           r.total.energy_j - old_r.total.energy_j)
            /\ OthersUntouched(k)

\* Two months have a bucket with time in it, and the last step added to one.
C1_Witness ==
    /\ Cardinality(DOMAIN r.buckets) = 2
    /\ \A k \in DOMAIN r.buckets : r.buckets[k].time > 0
    /\ r.total.time # old_r.total.time
    /\ nsteps = 2

\* "Much greater": twice as large at least.
MuchGreater(a, b) == a >= 2 * b

\* C2 as stated: a step with delta_wall much greater than uptime and equal
\* uptime deltas counts one rollover, leaves bad alone and is integrated over
\* delta_uptime_total.
C2_AsStated ==
    (/\ stepped
     /\ MuchGreater(DeltaWall(old_prev, prev), prev.uptime_cur)
     /\ DeltaTotal(old_prev, prev) = DeltaCurrent(old_prev, prev))
    => /\ r.rollovers = old_r.rollovers + 1
       /\ r.bad = old_r.bad
       /\ TotalGrew(DeltaTotal(old_prev, prev),
                    Trapezoid(old_prev, prev, DeltaTotal(old_prev, prev)))

\* C2 amended: a step that reaches rule 3 (rules 1 and 2 do not match and
\* delta_wall > uptime) with delta_uptime_total >= uptime counts one rollover,
\* leaves bad alone and is integrated over delta_uptime_total in place of
\* delta_wall; a step whose uptime deltas differ by less than 1 matches rule 1
\* or 2, counts no rollover and is integrated over delta_wall.
C2_TrustedRollover ==
    /\ (StepRule3 /\ ~StepSuspect)
       => /\ r.rollovers = old_r.rollovers + 1
          /\ r.bad = old_r.bad
          /\ TotalGrew(DeltaTotal(old_prev, prev),
                       Trapezoid(old_prev, prev, DeltaTotal(old_prev, prev)))
    /\ (stepped /\ abs(DeltaTotal(old_prev, prev) - DeltaCurrent(old_prev, prev)) < 1)
       => /\ r.rollovers = old_r.rollovers
          /\ r.bad = old_r.bad
          /\ TotalGrew(DeltaWall(old_prev, prev),
                       Trapezoid(old_prev, prev, DeltaWall(old_prev, prev)))

\* A rollover step with a lifetime counter that advanced, between two
\* different power readings.
C2_Witness ==
    /\ StepRule3
    /\ ~StepSuspect
    /\ old_prev.pwr # prev.pwr
    /\ DeltaTotal(old_prev, prev) # DeltaWall(old_prev, prev)
    /\ r.rollovers = 1

\* C3: a step that reaches rule 3 with delta_uptime_total < uptime counts one
\* rollover, adds uptime to the total time and current.pwr * uptime to the
\* total energy, adds both to the bucket of current.timestamp's month and to
\* no other bucket, and leaves bad alone.
C3_SuspectRollover ==
    (StepRule3 /\ StepSuspect)
    => /\ r.rollovers = old_r.rollovers + 1
       /\ TotalGrew(prev.uptime_cur, prev.pwr * prev.uptime_cur)
       /\ Received(LocalMonth(prev.stamp), prev.uptime_cur,
                   prev.pwr * prev.uptime_cur)
       /\ OthersUntouched(LocalMonth(prev.stamp))
       /\ r.bad = old_r.bad

\* A power-loss rollover across the month boundary, between two different
\* power readings, with an uptime that is not the wall clock delta.
C3_Witness ==
    /\ StepRule3
    /\ StepSuspect
    /\ LocalMonth(prev.stamp) # LocalMonth(old_prev.stamp)
    /\ old_prev.pwr # prev.pwr
    /\ prev.uptime_cur > 0
    /\ prev.uptime_cur # DeltaWall(old_prev, prev)

\* C4: a step that matches none of rules 1-3 sets bad and changes nothing
\* else of the Result: total, buckets, bucket keys and rollovers stay.
C4_Inconsistent ==
    StepRule4 => r = [old_r EXCEPT !.bad = TRUE]

\* An inconsistent step after a step that was accounted, bad not yet set.
C4_Witness ==
    /\ StepRule4
    /\ ~old_r.bad
    /\ old_r.total.time > 0
    /\ DeltaWall(old_prev, prev) > 0

\* The kinds of record whose extraction fails: a record simdjson fails on,
\* an item of another unit, a timestamp that does not parse, a device
\* without one of the three items, no device.
FailureKinds ==
    {"parse_error", "bad_unit", "bad_timestamp", "missing_field",
     "missing_device"}

\* C5 as stated: a record whose extraction fails is skipped: the run is not
\* ended by it, and Result, prev and is_first are as they were before it.
C5_FailuresAreSkipped ==
    cur_kind \in FailureKinds
    => /\ pc # "terminated"
       /\ r = old_r
       /\ prev = old_prev
       /\ is_first = old_first

\* C6 as stated: the steps are the adjacent pairs of the well-formed records:
\* there is one step less than well-formed records read (none when there is
\* none), and a step was run on a well-formed record and the well-formed
\* record before it.
C6_StepsPairExtracted ==
    /\ nsteps = IF nwell = 0 THEN 0 ELSE nwell - 1
    /\ stepped => /\ cur_kind = "ok"
                  /\ old_prev = wl_prev
                  /\ prev = wl_last

\* The process ended with a failure status: main returned non-zero, or an
\* exception left main.
ReportsFailure ==
    \/ pc = "terminated"
    \/ pc = "exited" /\ exit_status # 0

\* C7 as stated: a run that ended reports failure exactly when one of its
\* steps was inconsistent.
C7_FailureIffInconsistent ==
    pc # "loop" => (ReportsFailure <=> inconsistent)

\* The step of the last iteration was integrated: rule 1, rule 2, or rule 3
\* with a lifetime counter that advanced by the uptime at least.
StepIntegrated ==
    StepRule1 \/ StepRule2 \/ (StepRule3 /\ ~StepSuspect)

\* C8: an integrated step is attributed to the bucket of the local calendar
\* month of previous.timestamp alone: that bucket receives all the step adds
\* to the total, and every other bucket, that of current.timestamp's month
\* among them, is neither changed nor created.
C8_AttributedToStart ==
    StepIntegrated
    => /\ Received(LocalMonth(old_prev.stamp),
                   r.total.time - old_r.total.time,
                   r.total.energy_j - old_r.total.energy_j)
       /\ OthersUntouched(LocalMonth(old_prev.stamp))

\* An integrated step from January into February that added time, February
\* having no bucket after it.
C8_Witness ==
    /\ StepIntegrated
    /\ LocalMonth(old_prev.stamp) = <<2024, 1>>
    /\ LocalMonth(prev.stamp) = <<2024, 2>>
    /\ r.total.time > old_r.total.time
    /\ DOMAIN r.buckets = {<<2024, 1>>}

\* C9: while every step matched rule 1 or rule 2, the total time is the sum
\* of the wall clock deltas of the steps, the total energy the sum of their
\* trapezoids, no rollover is counted and bad is not set.
C9_ConsistentRun ==
    only12
    => /\ r.total.time = sum_wall
       /\ r.total.energy_j = sum_trap
       /\ r.rollovers = 0
       /\ ~r.bad

\* Two consistent steps of 60 s at 500 W: 120 s and 60,000 J.
C9_Witness ==
    /\ only12
    /\ nsteps = 2
    /\ StepRule1
    /\ DeltaWall(old_prev, prev) = 60
    /\ sum_wall = 120
    /\ old_prev.pwr = 500
    /\ prev.pwr = 500
    /\ old_r.total.time = 60
    /\ old_r.total.energy_j = 30000
    /\ r.total.time = 120
    /\ r.total.energy_j = 60000

\* C10: no step of a run clears bad, and rollovers grows by 1 in a step that
\* reaches rule 3 and stays as it is in every other step and iteration.
C10_AnomaliesMonotone ==
    [][/\ r.bad => r'.bad
       /\ r'.rollovers >= r.rollovers
       /\ r'.rollovers - r.rollovers =
            IF nsteps' = nsteps + 1 /\ Rule3(prev, prev') THEN 1 ELSE 0]_vars

\* A consistent step run after bad was set.
C10_Witness ==
    /\ StepRule1
    /\ old_r.bad
    /\ r.bad
    /\ r.total.time > old_r.total.time

----------------------------------------------------------------------------
\* C11: the accumulator that caches the last bucket in last_key / last_bucket
\* behaves as the accumulator that looks the bucket up on every call: after
\* every call of any sequence of calls on the one Result, also one whose key
\* changes and later returns to an earlier key, both have the same total and
\* the same bucket map, and the cached pointer was never dereferenced while
\* null, nor while pointing at a bucket of another key than the call's.
C11_CacheEquivalent ==
    /\ r.total = r_lookup.total
    /\ r.buckets = r_lookup.buckets
    /\ ~ub
    /\ key_trace # << >> =>
            /\ last_key = key_trace[Len(key_trace)]
            /\ last_bucket = key_trace[Len(key_trace)]
            /\ last_bucket \in DOMAIN r.buckets

\* Three calls whose key changes and returns: the third hits the bucket the
\* first created, after the cache pointed elsewhere.
C11_Witness ==
    /\ Len(key_trace) = 3
    /\ key_trace[1] # key_trace[2]
    /\ key_trace[3] = key_trace[1]
    /\ last_bucket = key_trace[1]
    /\ Cardinality(DOMAIN r.buckets) = 2
    /\ r.buckets[key_trace[1]].time > old_r.buckets[key_trace[1]].time
    /\ r.buckets[key_trace[2]] = old_r.buckets[key_trace[2]]

----------------------------------------------------------------------------
\* The step of the last iteration went forward in time and none of the four
\* uptime counters it read was below zero.
StepOrdered ==
    /\ prev.stamp > old_prev.stamp
    /\ old_prev.uptime_cur >= 0
    /\ old_prev.uptime_tot >= 0
    /\ prev.uptime_cur >= 0
    /\ prev.uptime_tot >= 0

\* The elapsed time the step of the last iteration is to add.
StepElapsed ==
    IF StepRule1 \/ StepRule2 THEN DeltaWall(old_prev, prev)
    ELSE IF StepRule3 /\ StepSuspect THEN prev.uptime_cur
    ELSE IF StepRule3 THEN DeltaTotal(old_prev, prev)
    ELSE 0

\* C12: a process_step call whose current time stamp is after the previous
\* one and whose uptime counters are not negative adds an elapsed time that is
\* not negative, in whichever branch it takes (delta_wall in rules 1 and 2,
\* uptime in the suspect rollover, delta_uptime_total >= uptime >= 0 in the
\* trusted rollover, nothing in rule 4): total.time does not decrease, no
\* bucket's time decreases and no bucket goes away.
C12_TimeNeverDecreases ==
    (stepped /\ StepOrdered) =>
        /\ StepElapsed >= 0
        /\ r.total.time = old_r.total.time + StepElapsed
        /\ r.total.time >= old_r.total.time
        /\ DOMAIN old_r.buckets \subseteq DOMAIN r.buckets
        /\ \A k \in DOMAIN r.buckets :
                r.buckets[k].time >= BucketOf(old_r, k).time

\* A rollover step whose lifetime counter fell although no counter is
\* negative: it added the uptime, not the negative delta.
C12_Witness ==
    /\ stepped
    /\ StepOrdered
    /\ StepRule3
    /\ StepSuspect
    /\ DeltaTotal(old_prev, prev) < 0
    /\ prev.uptime_cur > 0
    /\ r.total.time = old_r.total.time + prev.uptime_cur
    /\ \E k \in DOMAIN r.buckets : r.buckets[k].time > BucketOf(old_r, k).time

====
